---- MODULE Spec2Model ----
(***************************************************************************)
(* snapraid-runner.py as a state machine.                                  *)
(*                                                                         *)
(* Spec     the run lifecycle: main(), load_config(), setup_logger(),      *)
(*          run(), snapraid_command() seen from its caller, finish() and   *)
(*          send_apprise_notification().                                   *)
(* TeeSpec  one snapraid_command() in detail: the child process writing    *)
(*          to its two pipes, the two tee_log threads, the logging         *)
(*          handler's lock, and the main thread joining and waiting.       *)
(* TeeFaultSpec  TeeSpec with stream reads that may fail.                   *)
(* ConfigSpec    load_config() in detail: the parsed YAML file and the     *)
(*          command-line arguments, coerced into the global config.        *)
(***************************************************************************)
EXTENDS Integers, Sequences, FiniteSets, TLC

VARIABLES
    pc,            \* position of the main thread in main()/run()/finish()
    fs,            \* os.path.isfile of the two configured paths
    config,        \* the global config: <<>> is None, <<c>> after load_config
    inTry,         \* TRUE while control is inside the try block of main (215-216)
    calls,         \* every snapraid_command call so far, the last may be running
    proc_out,      \* the lines the last child process wrote to its stdout
    retval,        \* <<out>> when the last snapraid_command returned out, else <<>>
    diff_out,      \* run(): the lines returned by the diff command
    diff_results,  \* run(): <<>> before line 246, <<counts>> after
    scrub_args,    \* run(): the argument map built for scrub
    is_success,    \* finish(): its parameter
    finishCalls,   \* the is_success of every finish() call so far
    notifyLog,     \* every send_apprise_notification call and how it ended
    attachFile,    \* TRUE while the apprise_log_file exists on disk
    log,           \* the events logged so far (one tag per logging call)
    exc,           \* the exception last raised (<<>> if none)
    exitCode,      \* <<>> while the process runs, <<code>> once it has exited
    tee,           \* state of one snapraid_command in detail (TeeSpec)
    loader         \* load_config in detail (ConfigSpec): args and config_file

vars == <<pc, fs, config, inTry, calls, proc_out, retval, diff_out, diff_results, scrub_args,
          is_success, finishCalls, notifyLog, attachFile, log, exc, exitCode, tee, loader>>

runVars == <<pc, fs, config, inTry, calls, proc_out, retval, diff_out, diff_results, scrub_args,
             is_success, finishCalls, notifyLog, attachFile, log, exc, exitCode, loader>>

----------------------------------------------------------------------------
\* Bounds of the model.

\* longest output (in lines) a child process writes to stdout
MaxLines == 2
\* largest configured deletethreshold
MaxThreshold == 1
\* largest exit code of the child process
MaxExitCode == 2

----------------------------------------------------------------------------
\* Values.

Categories == {"add", "remove", "move", "update"}

\* A line of output is a sequence of characters; a word stands for its run
\* of characters.  Every line read by readline ends with "\n".  The last
\* line has a tab, not a space, after its first word.
DiffLines ==
    { <<"add", " ", "a", "\n">>,
      <<"remove", " ", "b", "\n">>,
      <<"move", " ", "c", "\n">>,
      <<"update", " ", "d", "\n">>,
      <<"equal", " ", "e", "\n">>,
      <<"add", "\t", "f", "\n">> }

OtherLines == { <<"Everything", " ", "OK", "\n">> }

RECURSIVE SeqsUpTo(_, _)
SeqsUpTo(S, n) ==
    IF n = 0 THEN { <<>> }
    ELSE LET shorter == SeqsUpTo(S, n - 1)
         IN  shorter \cup { Append(s, x) : s \in { t \in shorter : Len(t) = n - 1 }, x \in S }

\* what the child process of a command may write to stdout
ProcOutputs(command) ==
    IF command = "diff" THEN SeqsUpTo(DiffLines, MaxLines)
    ELSE { <<l>> : l \in OtherLines }

ExitCodes == 0 .. MaxExitCode

\* config["apprise"]["sendon"] is stored as the YAML value it was given
\* (load_config coerces only the int and bool options): either a container
\* (a string or a list, here the set of channel names found in it) or a
\* value that does not support "in" (None for an empty "sendon:", a number).
SendonValues ==
    { [container |-> TRUE, items |-> s] : s \in SUBSET {"error", "success"} }
        \cup { [container |-> FALSE, items |-> {}] }

\* Python values that reach the argument map: strings (sequences of
\* characters) and integers.
PyStr(s) == [t |-> "str", s |-> s, n |-> 0]

PyInt(n) == [t |-> "int", s |-> <<>>, n |-> n]

\* config["scrub"]["plan"]: a percentage such as "75" or a named plan
PlanValues == { PyStr(<<"7", "5">>), PyStr(<<"b", "a", "d">>) }

Digits == {"0", "1", "2", "3", "4", "5", "6", "7", "8", "9"}

Configs ==
    [ touch : BOOLEAN,
      deletethreshold : (0 - 1) .. MaxThreshold,
      scrubEnabled : BOOLEAN,
      plan : PlanValues,
      olderThan : {PyInt(0)},
      sendon : SendonValues,
      attachLog : BOOLEAN ]

Cfg == config[1]

----------------------------------------------------------------------------
\* Exceptions.

CalledProcessError(ret, command) ==
    [type |-> "CalledProcessError", returncode |-> ret, cmd |-> <<"snapraid", command>>]

OtherError(type) == [type |-> type, returncode |-> 0, cmd |-> <<>>]

SystemExit(code) == [type |-> "SystemExit", returncode |-> code, cmd |-> <<>>]

\* "except Exception" in main (217) and in finish (94): SystemExit derives
\* from BaseException, not from Exception, and passes through.
ExceptException(e) == e.type # "SystemExit"

\* a main without its handler around run(), for comparison
MainCatchesNothing(e) == FALSE

\* line 217
MainCatches(e) == ExceptException(e)

\* a finish whose try catches nothing, for comparison
FinishCatchesNothing(e) == FALSE

\* line 94
FinishCatches(e) == ExceptException(e)

\* the process exit code of an exception that reaches the top level
TopLevelExit(e) == IF e.type = "SystemExit" THEN e.returncode ELSE 1

\* raise e at the current position of main()/run()/finish()
Raise(e) ==
    /\ exc' = <<e>>
    /\ IF inTry /\ MainCatches(e)
       THEN /\ pc' = "main_except"
            /\ inTry' = FALSE
            /\ exitCode' = exitCode
       ELSE /\ pc' = "exited"
            /\ inTry' = FALSE
            /\ exitCode' = <<TopLevelExit(e)>>

\* call finish(flag)
CallFinish(flag) ==
    /\ pc' = "finish"
    /\ is_success' = flag

----------------------------------------------------------------------------
\* The state of TeeSpec, idle throughout Spec.

Streams == {"out", "err"}

NewThread == [pc |-> "not_started", buf |-> <<>>, pos |-> 0, failed |-> FALSE]

TeeIdle ==
    [mode |-> "idle", mi |-> 1, script |-> <<>>, trunc |-> FALSE, ret |-> 0,
     line |-> 1, col |-> 0,
     pipe |-> [s \in Streams |-> <<>>], closed |-> [s \in Streams |-> FALSE],
     childExited |-> FALSE, th |-> [s \in Streams |-> NewThread], lock |-> "",
     sink |-> <<>>, out_lines |-> [s \in Streams |-> <<>>], result |-> ""]

\* The state of ConfigSpec, idle throughout the other specifications.
LoaderIdle ==
    [mode |-> "idle", config_file |-> <<>>,
     args |-> [scrub |-> <<>>, ignore_deletethreshold |-> FALSE]]

----------------------------------------------------------------------------
\* main()

\* the globals (15-16) and the locals of main, run and finish before main
InitRun ==
    /\ pc = "main"
    /\ config = <<>>
    /\ inTry = FALSE
    /\ calls = <<>>
    /\ proc_out = <<>>
    /\ retval = <<>>
    /\ diff_out = <<>>
    /\ diff_results = <<>>
    /\ scrub_args = <<>>
    /\ is_success = FALSE
    /\ finishCalls = <<>>
    /\ notifyLog = <<>>
    /\ attachFile = FALSE
    /\ log = <<>>
    /\ exc = <<>>
    /\ exitCode = <<>>

Init ==
    /\ InitRun
    /\ fs \in [exe : BOOLEAN, conf : BOOLEAN]
    /\ tee = TeeIdle
    /\ loader = LoaderIdle

\* lines 196-199: the configuration file must exist
MainCheckConf ==
    /\ pc = "main"
    /\ \E exists \in BOOLEAN :
          IF exists
          THEN /\ pc' = "load_config"
               /\ exitCode' = exitCode
          ELSE /\ pc' = "exited"
               /\ exitCode' = <<2>>
    /\ UNCHANGED <<fs, config, inTry, calls, proc_out, retval, diff_out, diff_results, scrub_args,
                   is_success, finishCalls, notifyLog, attachFile, log, exc, tee, loader>>

\* lines 201-206 and load_config (103-145)
MainLoadConfig ==
    /\ pc = "load_config"
    /\ \/ /\ \E c \in Configs : config' = <<c>>
          /\ pc' = "setup_logger"
          /\ exitCode' = exitCode
       \/ /\ config' = config
          /\ pc' = "exited"
          /\ exitCode' = <<2>>
    /\ UNCHANGED <<fs, inTry, calls, proc_out, retval, diff_out, diff_results, scrub_args,
                   is_success, finishCalls, notifyLog, attachFile, log, exc, tee, loader>>

\* lines 208-213 and setup_logger (148-180): the FileHandler of line 175
\* creates the attachment file
MainSetupLogger ==
    /\ pc = "setup_logger"
    /\ \/ /\ attachFile' = Cfg.attachLog
          /\ pc' = "run"
          /\ inTry' = TRUE
          /\ exitCode' = exitCode
       \/ /\ attachFile' = attachFile
          /\ pc' = "exited"
          /\ inTry' = inTry
          /\ exitCode' = <<2>>
    /\ UNCHANGED <<fs, config, calls, proc_out, retval, diff_out, diff_results, scrub_args,
                   is_success, finishCalls, notifyLog, log, exc, tee, loader>>

\* lines 217-219: the handler of main
MainExcept ==
    /\ pc = "main_except"
    /\ log' = Append(log, "unexpected_exception")
    /\ CallFinish(FALSE)
    /\ UNCHANGED <<fs, config, inTry, calls, proc_out, retval, diff_out, diff_results, scrub_args,
                   finishCalls, notifyLog, attachFile, exc, exitCode, tee, loader>>

----------------------------------------------------------------------------
\* snapraid_command (35-64), seen from its caller.

\* allow_statuscodes at the four call sites (239, 243, 266, 285)
AllowStatuscodes(command) == IF command = "diff" THEN {2} ELSE {}

\* a classification that ignores the allowlist, for comparison
ClassifyZeroOnly(ret, allow) == ret = 0

\* line 61
Classify(ret, allow) == ret = 0 \/ ret \in allow

\* the args of the four call sites
ArgsOf(command) == IF command = "scrub" THEN scrub_args ELSE <<>>

CallSites == {"call_touch", "call_diff", "call_sync", "call_scrub"}

WaitSites == {"wait_touch", "wait_diff", "wait_sync", "wait_scrub"}

CommandAt(p) ==
    CASE p \in {"call_touch", "wait_touch"} -> "touch"
      [] p \in {"call_diff", "wait_diff"} -> "diff"
      [] p \in {"call_sync", "wait_sync"} -> "sync"
      [] p \in {"call_scrub", "wait_scrub"} -> "scrub"

WaitOf(command) ==
    CASE command = "touch" -> "wait_touch"
      [] command = "diff" -> "wait_diff"
      [] command = "sync" -> "wait_sync"
      [] command = "scrub" -> "wait_scrub"

\* a run() that goes back to diff once scrub has returned, for comparison
ReturnToDiffAfterScrub(command) ==
    CASE command = "touch" -> "call_diff"
      [] command = "diff" -> "analyze"
      [] command = "sync" -> "scrub_decision"
      [] command = "scrub" -> "call_diff"

\* where run() continues when the command returns (240, 244, 270, 289)
ReturnTo(command) ==
    CASE command = "touch" -> "call_diff"
      [] command = "diff" -> "analyze"
      [] command = "sync" -> "scrub_decision"
      [] command = "scrub" -> "all_done"

\* the try blocks around sync (265-269) and scrub (284-288) catch
\* subprocess.CalledProcessError; touch and diff are called bare
HandledAtSite(command, e) ==
    command \in {"sync", "scrub"} /\ e.type = "CalledProcessError"

\* a handler that logs the error and carries on, for comparison
ContinueAfterError(command) == ReturnTo(command)

\* what those handlers do after logging the error: finish(False)
AfterSiteHandler(command) == "finish"

\* config["snapraid"]["executable"] and config["snapraid"]["config"]: paths,
\* each a string of one word
Executable == <<"snapraid">>

ConfigPath == <<"snapraid.conf">>

DigitChars == <<"0", "1", "2", "3", "4", "5", "6", "7", "8", "9">>

\* str(n) of a natural number: its decimal digits
RECURSIVE NatToStr(_)
NatToStr(n) ==
    IF n < Len(DigitChars) THEN <<DigitChars[n + 1]>>
    ELSE Append(NatToStr(n \div Len(DigitChars)), DigitChars[(n % Len(DigitChars)) + 1])

\* line 43: str(v) of a string is the string, of an int its decimal form
Str(v) ==
    IF v.t = "str" THEN v.s
    ELSE IF v.n < 0 THEN <<"-">> \o NatToStr(0 - v.n)
    ELSE NatToStr(v.n)

\* lines 40-41: the arguments every command gets
GlobalArguments == << <<"--conf">>, ConfigPath, <<"--quiet">> >>

\* lines 42-43: arguments.extend(["--" + k, str(v)]) for every item of args
RECURSIVE ExtendArguments(_, _)
ExtendArguments(arguments, args) ==
    IF args = <<>> THEN arguments
    ELSE ExtendArguments(arguments \o << <<"--", Head(args)[1]>>, Str(Head(args)[2]) >>,
                         Tail(args))

\* an argument list with the global arguments before the command name,
\* for comparison
ArgvGlobalFirst(command, args) ==
    <<Executable>> \o GlobalArguments \o <<<<command>>>> \o ExtendArguments(<<>>, args)

\* line 45: [executable, command] + arguments
Argv(command, args) ==
    <<Executable, <<command>>>> \o ExtendArguments(GlobalArguments, args)

NewCall(command) ==
    [command |-> command, args |-> ArgsOf(command),
     argv |-> Argv(command, ArgsOf(command)),
     allow |-> AllowStatuscodes(command), status |-> "running",
     ret |-> 0, error |-> <<>>]

\* lines 40-51: the call and subprocess.Popen, which raises OSError when
\* the executable cannot be started (a regular file that is not executable)
SnapraidPopen ==
    /\ pc \in CallSites
    /\ \E started \in BOOLEAN :
          LET call == NewCall(CommandAt(pc)) IN
          IF started
          THEN /\ calls' = Append(calls, call)
               /\ pc' = WaitOf(call.command)
               /\ UNCHANGED <<inTry, exc, exitCode>>
          ELSE /\ calls' = Append(calls, [call EXCEPT !.status = "popen_failed"])
               /\ Raise(OtherError("OSError"))
    /\ proc_out' = <<>>
    /\ retval' = <<>>
    /\ UNCHANGED <<fs, config, diff_out, diff_results, scrub_args, is_success,
                   finishCalls, notifyLog, attachFile, log, tee, loader>>

\* lines 52-64: both tee threads joined, the process waited for, the exit
\* code classified; then the caller's continuation or handler
SnapraidReturn ==
    /\ pc \in WaitSites
    /\ \E out \in ProcOutputs(CommandAt(pc)), ret \in ExitCodes :
          LET command == CommandAt(pc)
              n == Len(calls)
              call == calls[n]
              e == CalledProcessError(ret, command)
          IN  /\ proc_out' = out
              /\ IF Classify(ret, call.allow)
                 THEN /\ calls' = [calls EXCEPT ![n] =
                                      [call EXCEPT !.status = "returned", !.ret = ret]]
                      /\ retval' = <<out>>
                      /\ pc' = ReturnTo(command)
                      /\ diff_out' = IF command = "diff" THEN out ELSE diff_out
                      /\ log' = IF command = "diff" THEN log ELSE Append(log, "stars")
                      /\ UNCHANGED <<inTry, exc, exitCode, is_success>>
                 ELSE /\ calls' = [calls EXCEPT ![n] =
                                      [call EXCEPT !.status = "raised", !.ret = ret,
                                                   !.error = <<e>>]]
                      /\ retval' = <<>>
                      /\ diff_out' = diff_out
                      /\ IF HandledAtSite(command, e)
                         THEN /\ log' = Append(log, "command_error")
                              /\ exc' = <<e>>
                              /\ pc' = AfterSiteHandler(command)
                              /\ is_success' = FALSE
                              /\ UNCHANGED <<inTry, exitCode>>
                         ELSE /\ Raise(e)
                              /\ UNCHANGED <<log, is_success>>
    /\ UNCHANGED <<fs, config, diff_results, scrub_args, finishCalls, notifyLog,
                   attachFile, tee, loader>>

----------------------------------------------------------------------------
\* run() (222-292)

\* line 227
ExecutableIsFile == fs.exe

\* a run that does not look at the snapraid config, for comparison
ConfigUnchecked == TRUE

\* line 232
ConfigIsFile == fs.conf

\* lines 223-231
RunCheckExecutable ==
    /\ pc = "run"
    /\ IF ExecutableIsFile
       THEN /\ log' = Append(log, "run_started")
            /\ pc' = "check_config"
            /\ is_success' = is_success
       ELSE /\ log' = log \o <<"run_started", "executable_missing">>
            /\ CallFinish(FALSE)
    /\ UNCHANGED <<fs, config, inTry, calls, proc_out, retval, diff_out, diff_results, scrub_args,
                   finishCalls, notifyLog, attachFile, exc, exitCode, tee, loader>>

\* lines 232-238 and 242
RunCheckConfig ==
    /\ pc = "check_config"
    /\ IF ConfigIsFile
       THEN /\ IF Cfg.touch
               THEN /\ log' = Append(log, "running_touch")
                    /\ pc' = "call_touch"
               ELSE /\ log' = log
                    /\ pc' = "call_diff"
            /\ is_success' = is_success
       ELSE /\ log' = Append(log, "config_missing")
            /\ CallFinish(FALSE)
    /\ UNCHANGED <<fs, config, inTry, calls, proc_out, retval, diff_out, diff_results, scrub_args,
                   finishCalls, notifyLog, attachFile, exc, exitCode, tee, loader>>

\* line.split(" ")[0]: the characters before the first " "
RECURSIVE FirstToken(_)
FirstToken(line) ==
    IF line = <<>> \/ Head(line) = " " THEN <<>>
    ELSE <<Head(line)>> \o FirstToken(Tail(line))

RECURSIVE CountToken(_, _)
CountToken(lines, x) ==
    IF lines = <<>> THEN 0
    ELSE (IF FirstToken(Head(lines)) = <<x>> THEN 1 ELSE 0) + CountToken(Tail(lines), x)

\* lines 246-248: Counter over the first tokens, read at the four keys
DiffCounts(lines) == [x \in Categories |-> CountToken(lines, x)]

\* lines 244-250.  diff_out and the captured lines are not read again
\* after line 246: the model drops them here.
RunAnalyze ==
    /\ pc = "analyze"
    /\ diff_results' = <<DiffCounts(diff_out)>>
    /\ log' = log \o <<"stars", "diff_results">>
    /\ pc' = "threshold"
    /\ diff_out' = <<>>
    /\ proc_out' = <<>>
    /\ retval' = <<>>
    /\ UNCHANGED <<fs, config, inTry, calls, scrub_args, is_success,
                   finishCalls, notifyLog, attachFile, exc, exitCode, tee, loader>>

\* a gate that also aborts at the threshold itself, for comparison
ThresholdReached(threshold, results) ==
    threshold >= 0 /\ results["remove"] >= threshold

\* lines 252-253
ThresholdExceeded(threshold, results) ==
    threshold >= 0 /\ results["remove"] > threshold

\* a no-op test that looks at the removals only, for comparison
NoRemovals(results) == results["remove"] = 0

\* lines 260-261
NoChanges(results) ==
    results["remove"] + results["add"] + results["move"] + results["update"] = 0

\* lines 252-258
RunThreshold ==
    /\ pc = "threshold"
    /\ IF ThresholdExceeded(Cfg.deletethreshold, diff_results[1])
       THEN /\ log' = log \o <<"threshold_exceeded", "override_hint">>
            /\ CallFinish(FALSE)
       ELSE /\ log' = log
            /\ pc' = "sync_decision"
            /\ is_success' = is_success
    /\ UNCHANGED <<fs, config, inTry, calls, proc_out, retval, diff_out, diff_results, scrub_args,
                   finishCalls, notifyLog, attachFile, exc, exitCode, tee, loader>>

\* lines 260-264
RunSyncDecision ==
    /\ pc = "sync_decision"
    /\ IF NoChanges(diff_results[1])
       THEN /\ log' = Append(log, "no_sync_required")
            /\ pc' = "scrub_decision"
       ELSE /\ log' = Append(log, "running_sync")
            /\ pc' = "call_sync"
    /\ UNCHANGED <<fs, config, inTry, calls, proc_out, retval, diff_out, diff_results, scrub_args,
                   is_success, finishCalls, notifyLog, attachFile, exc, exitCode, tee, loader>>

\* an int() that accepts every plan, for comparison
AnyPlanParses(v) == TRUE

\* int(plan) succeeds (276): the value is an int or a string of digits
IntParses(v) ==
    \/ v.t = "int"
    \/ /\ v.t = "str"
       /\ v.s # <<>>
       /\ \A i \in 1 .. Len(v.s) : v.s[i] \in Digits

\* lines 274-283
ScrubArgs(plan, olderThan) ==
    IF IntParses(plan)
    THEN << <<"plan", plan>>, <<"older-than", olderThan>> >>
    ELSE << <<"plan", plan>> >>

\* lines 272-283
RunScrubDecision ==
    /\ pc = "scrub_decision"
    /\ IF Cfg.scrubEnabled
       THEN /\ log' = Append(log, "running_scrub")
            /\ scrub_args' = ScrubArgs(Cfg.plan, Cfg.olderThan)
            /\ pc' = "call_scrub"
       ELSE /\ log' = log
            /\ scrub_args' = scrub_args
            /\ pc' = "all_done"
    /\ UNCHANGED <<fs, config, inTry, calls, proc_out, retval, diff_out, diff_results, is_success,
                   finishCalls, notifyLog, attachFile, exc, exitCode, tee, loader>>

\* lines 291-292
RunAllDone ==
    /\ pc = "all_done"
    /\ log' = Append(log, "all_done")
    /\ CallFinish(TRUE)
    /\ UNCHANGED <<fs, config, inTry, calls, proc_out, retval, diff_out, diff_results, scrub_args,
                   finishCalls, notifyLog, attachFile, exc, exitCode, tee, loader>>

----------------------------------------------------------------------------
\* finish (90-100) and send_apprise_notification (67-87)

\* a finish that tests the error channel whatever the outcome, for comparison
ChannelAlwaysError(flag) == "error"

\* ("error", "success")[is_success]
Channel(flag) == IF flag THEN "success" ELSE "error"

\* line 100
ExitStatus(flag) == IF flag THEN 0 ELSE 1

\* lines 90-91: the call, and the membership test, which raises TypeError
\* when sendon is not a container
Finish ==
    /\ pc = "finish"
    /\ finishCalls' = Append(finishCalls, is_success)
    /\ IF ~Cfg.sendon.container
       THEN Raise(OtherError("TypeError"))
       ELSE /\ pc' = IF Channel(is_success) \in Cfg.sendon.items
                     THEN "notify" ELSE "finish_exit"
            /\ UNCHANGED <<inTry, exc, exitCode>>
    /\ UNCHANGED <<fs, config, calls, proc_out, retval, diff_out, diff_results, scrub_args, is_success,
                   notifyLog, attachFile, log, tee, loader>>

\* an exception e raised inside send_apprise_notification: caught at 94-95
\* and logged, or passed on to the caller of finish
RaiseInNotify(e) ==
    IF FinishCatches(e)
    THEN /\ log' = Append(log, "notify_failed")
         /\ exc' = <<e>>
         /\ pc' = "finish_exit"
         /\ UNCHANGED <<inTry, exitCode>>
    ELSE /\ Raise(e)
         /\ log' = log

\* lines 68-84 and 87: the import, the urls, and notify
SendNotification ==
    /\ pc = "notify"
    /\ \/ /\ notifyLog' = Append(notifyLog, [success |-> is_success,
                                             attach |-> Cfg.attachLog, result |-> "no_library"])
          /\ log' = Append(log, "apprise_missing")
          /\ pc' = "finish_exit"
          /\ UNCHANGED <<inTry, exc, exitCode>>
       \/ /\ notifyLog' = Append(notifyLog, [success |-> is_success,
                                             attach |-> Cfg.attachLog, result |-> "raised"])
          /\ RaiseInNotify(OtherError("NotifyError"))
       \/ /\ notifyLog' = Append(notifyLog, [success |-> is_success,
                                             attach |-> Cfg.attachLog, result |-> "sent"])
          /\ pc' = IF Cfg.attachLog THEN "remove_attachment" ELSE "finish_exit"
          /\ UNCHANGED <<inTry, exc, exitCode, log>>
    /\ UNCHANGED <<fs, config, calls, proc_out, retval, diff_out, diff_results, scrub_args, is_success,
                   finishCalls, attachFile, tee, loader>>

\* line 85: os.remove(apprise_log_file), which may raise OSError
RemoveAttachment ==
    /\ pc = "remove_attachment"
    /\ \/ /\ attachFile' = FALSE
          /\ notifyLog' = notifyLog
          /\ pc' = "finish_exit"
          /\ UNCHANGED <<inTry, exc, exitCode, log>>
       \/ /\ attachFile' = attachFile
          /\ notifyLog' = [notifyLog EXCEPT ![Len(notifyLog)].result = "remove_failed"]
          /\ RaiseInNotify(OtherError("OSError"))
    /\ UNCHANGED <<fs, config, calls, proc_out, retval, diff_out, diff_results, scrub_args, is_success,
                   finishCalls, tee, loader>>

\* lines 96-100: the last log line and sys.exit, which raises SystemExit
FinishExit ==
    /\ pc = "finish_exit"
    /\ log' = Append(log, IF is_success THEN "run_finished" ELSE "run_failed")
    /\ Raise(SystemExit(ExitStatus(is_success)))
    /\ UNCHANGED <<fs, config, calls, proc_out, retval, diff_out, diff_results, scrub_args, is_success,
                   finishCalls, notifyLog, attachFile, tee, loader>>

----------------------------------------------------------------------------

Next ==
    \/ MainCheckConf
    \/ MainLoadConfig
    \/ MainSetupLogger
    \/ MainExcept
    \/ RunCheckExecutable
    \/ RunCheckConfig
    \/ SnapraidPopen
    \/ SnapraidReturn
    \/ RunAnalyze
    \/ RunThreshold
    \/ RunSyncDecision
    \/ RunScrubDecision
    \/ RunAllDone
    \/ Finish
    \/ SendNotification
    \/ RemoveAttachment
    \/ FinishExit

Spec == Init /\ [][Next]_vars

\* the steps of the program itself: every action but the one in which the
\* external process ends and snapraid_command returns or raises
RunStep ==
    \/ MainCheckConf
    \/ MainLoadConfig
    \/ MainSetupLogger
    \/ MainExcept
    \/ RunCheckExecutable
    \/ RunCheckConfig
    \/ SnapraidPopen
    \/ RunAnalyze
    \/ RunThreshold
    \/ RunSyncDecision
    \/ RunScrubDecision
    \/ RunAllDone
    \/ Finish
    \/ SendNotification
    \/ RemoveAttachment
    \/ FinishExit

\* Spec under fair scheduling of the program: a step of the program that
\* can be taken is taken; when an external process ends is left open
FairSpec == Spec /\ WF_vars(RunStep)

----------------------------------------------------------------------------
\* One snapraid_command("diff") in detail (TeeSpec): lines 19-32 and 44-64.

\* Bounds: the lines the child writes per stream, the characters of a line
\* (the last one is the newline), and the capacity of a pipe in characters.
MaxTeeLines == 2

LineLen == 2

PipeCap == 1

NL == [s |-> "", i |-> 0, k |-> 0]

\* the k-th character of the i-th line the child writes to stream s
Char(s, i, k) == IF k = LineLen THEN NL ELSE [s |-> s, i |-> i, k |-> k]

LineOf(s, i) == [k \in 1 .. LineLen |-> Char(s, i, k)]

\* str.rstrip(): without the trailing whitespace
RECURSIVE RStrip(_)
RStrip(line) ==
    IF line # <<>> /\ line[Len(line)] = NL
    THEN RStrip(SubSeq(line, 1, Len(line) - 1))
    ELSE line

\* the order in which the child writes its lines: a stream name per line;
\* every line has LineLen characters
Scripts ==
    { sc \in SeqsUpTo(Streams, 2 * MaxTeeLines) :
        \A s \in Streams : Cardinality({ j \in DOMAIN sc : sc[j] = s }) <= MaxTeeLines }

\* how many of the first n lines of the script go to stream s
LinesTo(sc, n, s) == Cardinality({ j \in 1 .. n : sc[j] = s })

\* the steps of MainSteps with the first thread joined before the second
\* is started, for comparison
MainStepsSequential ==
    <<"popen", "start_out", "join_out", "start_err", "join_err", "wait", "classify">>

\* the steps of MainSteps with the process waited for before the threads
\* are joined, for comparison
MainStepsWaitFirst ==
    <<"popen", "start_out", "start_err", "wait", "join_out", "join_err", "classify">>

\* the steps of the main thread in snapraid_command: Popen (44-51), the two
\* tee_log calls, each starting its thread (53-55), the joins (56-57),
\* p.wait (58), and the sleep and classification (60-64)
MainSteps ==
    <<"popen", "start_out", "start_err", "join_out", "join_err", "wait", "classify">>

MainStep == IF tee.mi <= Len(MainSteps) THEN MainSteps[tee.mi] ELSE "done"

\* the main thread of snapraid_command, one step of MainSteps at a time
TeeMain ==
    /\ tee.mode = "run"
    /\ \/ /\ MainStep = "popen"
          /\ \E sc \in Scripts, trunc \in BOOLEAN :
                tee' = [tee EXCEPT !.mi = @ + 1, !.script = sc, !.trunc = trunc]
       \/ /\ MainStep = "start_out"
          /\ tee' = [tee EXCEPT !.mi = @ + 1, !.th["out"].pc = "readline"]
       \/ /\ MainStep = "start_err"
          /\ tee' = [tee EXCEPT !.mi = @ + 1, !.th["err"].pc = "readline"]
       \/ /\ MainStep = "join_out"
          /\ tee.th["out"].pc = "done"
          /\ tee' = [tee EXCEPT !.mi = @ + 1]
       \/ /\ MainStep = "join_err"
          /\ tee.th["err"].pc = "done"
          /\ tee' = [tee EXCEPT !.mi = @ + 1]
       \/ /\ MainStep = "wait"
          /\ tee.childExited
          /\ \E ret \in ExitCodes : tee' = [tee EXCEPT !.mi = @ + 1, !.ret = ret]
       \/ /\ MainStep = "classify"
          /\ tee' = [tee EXCEPT !.mi = @ + 1,
                                !.result = IF Classify(tee.ret, AllowStatuscodes("diff"))
                                           THEN "returned"
                                           ELSE "raised"]
    /\ UNCHANGED runVars

ChildRunning == tee.mode = "run" /\ tee.mi > 1 /\ ~tee.childExited

\* the characters of the n-th line of the script: the last line may end
\* without a newline
WrittenLen(n) == IF tee.trunc /\ n = Len(tee.script) THEN LineLen - 1 ELSE LineLen

\* the child writes the next character of its current line; the write
\* blocks while the pipe of that stream is full
ChildWrite ==
    /\ ChildRunning
    /\ tee.line <= Len(tee.script)
    /\ LET s == tee.script[tee.line]
           i == LinesTo(tee.script, tee.line, s)
           c == Char(s, i, tee.col + 1)
           last == tee.col + 1 = WrittenLen(tee.line)
       IN  /\ Len(tee.pipe[s]) < PipeCap
           /\ tee' = [tee EXCEPT !.pipe[s] = Append(@, c),
                                 !.col = IF last THEN 0 ELSE tee.col + 1,
                                 !.line = IF last THEN @ + 1 ELSE @]
    /\ UNCHANGED runVars

\* the child has written everything: it exits, which closes both streams
ChildExit ==
    /\ ChildRunning
    /\ tee.line > Len(tee.script)
    /\ tee' = [tee EXCEPT !.childExited = TRUE, !.closed = [s \in Streams |-> TRUE]]
    /\ UNCHANGED runVars

\* readline has a whole line: it ends with the newline
LineComplete(buf) == buf # <<>> /\ buf[Len(buf)] = NL

\* line 25: infile.readline(), a character at a time; "" at end of stream
TeeReadline(t) ==
    /\ tee.th[t].pc = "readline"
    /\ IF tee.pipe[t] # <<>>
       THEN LET buf == Append(tee.th[t].buf, Head(tee.pipe[t]))
            IN  tee' = [tee EXCEPT !.pipe[t] = Tail(@),
                                   !.th[t].buf = buf,
                                   !.th[t].pc = IF LineComplete(buf) THEN "log"
                                                ELSE "readline"]
       ELSE /\ tee.closed[t]
            /\ tee' = [tee EXCEPT !.th[t].pc = IF tee.th[t].buf = <<>> THEN "close"
                                               ELSE "log"]
    /\ UNCHANGED runVars

\* the handler's lock, taken by Handler.handle around emit
LockFree(t) == tee.lock = ""

\* line 26: logging.log takes the handler's lock ...
TeeLogAcquire(t) ==
    /\ tee.th[t].pc = "log"
    /\ LockFree(t)
    /\ tee' = [tee EXCEPT !.lock = t, !.th[t].pc = "emit", !.th[t].pos = 0]
    /\ UNCHANGED runVars

\* ... writes line.rstrip() and the terminator to the sink, a character at
\* a time, and releases the lock
TeeLogEmit(t) ==
    /\ tee.th[t].pc = "emit"
    /\ LET msg == Append(RStrip(tee.th[t].buf), NL)
           k == tee.th[t].pos + 1
       IN  tee' = [tee EXCEPT !.sink = Append(@, msg[k]),
                              !.th[t].pos = k,
                              !.th[t].pc = IF k = Len(msg) THEN "append" ELSE "emit",
                              !.lock = IF k = Len(msg) THEN "" ELSE @]
    /\ UNCHANGED runVars

\* one list shared by both tee_log calls, for comparison
SharedBuffer(t) == "out"

\* lines 52-55: the out_lines of each tee_log call: out for stdout, a list
\* of its own for stderr
BufferOf(t) == t

\* line 27: out_lines.append(line), then back to readline
TeeAppend(t) ==
    /\ tee.th[t].pc = "append"
    /\ tee' = [tee EXCEPT !.out_lines[BufferOf(t)] = Append(@, tee.th[t].buf),
                          !.th[t].buf = <<>>,
                          !.th[t].pc = "readline"]
    /\ UNCHANGED runVars

\* line 28: infile.close(), and the thread ends
TeeClose(t) ==
    /\ tee.th[t].pc = "close"
    /\ tee' = [tee EXCEPT !.th[t].pc = "done"]
    /\ UNCHANGED runVars

TeeThread(t) ==
    \/ TeeReadline(t)
    \/ TeeLogAcquire(t)
    \/ TeeLogEmit(t)
    \/ TeeAppend(t)
    \/ TeeClose(t)

TeeInit ==
    /\ InitRun
    /\ fs = [exe |-> TRUE, conf |-> TRUE]
    /\ tee = [TeeIdle EXCEPT !.mode = "run"]
    /\ loader = LoaderIdle

TeeNext ==
    \/ TeeMain
    \/ ChildWrite
    \/ ChildExit
    \/ \E t \in Streams : TeeThread(t)

TeeSpec == TeeInit /\ [][TeeNext]_vars

\* TeeSpec under fair scheduling: the main thread, each tee thread and the
\* child process take the steps they can take
TeeFairSpec ==
    /\ TeeSpec
    /\ WF_vars(TeeMain)
    /\ WF_vars(ChildWrite)
    /\ WF_vars(ChildExit)
    /\ \A t \in Streams : WF_vars(TeeThread(t))

\* line 25 with a failing read: infile.readline() raises (an OSError of the
\* pipe).  Nothing in tee_thread catches it: the thread ends there, without
\* line 28, and the exception stays in the thread.
TeeReadError(t) ==
    /\ tee.th[t].pc = "readline"
    /\ tee' = [tee EXCEPT !.th[t].pc = "done", !.th[t].failed = TRUE,
                          !.th[t].buf = <<>>]
    /\ UNCHANGED runVars

TeeFaultNext ==
    \/ TeeNext
    \/ \E t \in Streams : TeeReadError(t)

\* TeeSpec with reads that may fail
TeeFaultSpec == TeeInit /\ [][TeeFaultNext]_vars

----------------------------------------------------------------------------
\* load_config in detail (ConfigSpec): lines 103-145.

PyBool(b) == [t |-> "bool", s |-> <<>>, n |-> IF b THEN 1 ELSE 0]

\* lines 118-122
IntOptions ==
    << <<"snapraid", "deletethreshold">>, <<"logging", "maxsize">>, <<"scrub", "older-than">> >>

\* lines 128-132
BoolOptions ==
    << <<"snapraid", "touch">>, <<"apprise", "short">>, <<"scrub", "enabled">> >>

\* the other options load_config reads (138-139)
MigrationOptions == << <<"scrub", "percentage">>, <<"scrub", "plan">> >>

Range(seq) == { seq[i] : i \in DOMAIN seq }

Options == Range(IntOptions) \cup Range(BoolOptions) \cup Range(MigrationOptions)

\* what the YAML file may hold for an option: <<>> when the key is absent,
\* <<v>> when it is given the value v
FileValues(option) ==
    IF option \in Range(IntOptions)
    THEN { <<>>, <<PyInt(MaxThreshold)>>, <<PyBool(TRUE)>>, <<PyStr(<<"x">>)>> }
    ELSE IF option \in Range(BoolOptions)
    THEN { <<>>, <<PyBool(TRUE)>>, <<PyBool(FALSE)>>, <<PyInt(1)>> }
    ELSE IF option = <<"scrub", "percentage">>
    THEN { <<>>, <<PyInt(MaxThreshold)>> }
    ELSE { <<>>, <<PyStr(<<"b", "a", "d">>)>> }

\* the assignments of file values to a set of options
FilesOver(options) ==
    { f \in [options -> UNION { FileValues(o) : o \in options }] :
        \A o \in options : f[o] \in FileValues(o) }

\* yaml.safe_load (112) of the files the model reads
ConfigFiles ==
    { i @@ b @@ m : i \in FilesOver(Range(IntOptions)), b \in FilesOver(Range(BoolOptions)),
                    m \in FilesOver(Range(MigrationOptions)) }

\* parse_args (189-194): --no-scrub stores False, its default is None;
\* --ignore-deletethreshold stores True
ArgsValues == [scrub : { <<>>, <<FALSE>> }, ignore_deletethreshold : BOOLEAN]

\* lines 106-115: a defaultdict per section, "" for a key not in the file
Loaded(file) == [o \in Options |-> IF file[o] = <<>> THEN PyStr(<<>>) ELSE file[o][1]]

\* an isinstance(v, int) that a bool does not pass, for comparison
IsStrictlyInt(v) == v.t = "int"

\* isinstance(v, int): bool is a subclass of int
IsInstanceInt(v) == v.t \in {"int", "bool"}

\* isinstance(v, bool)
IsInstanceBool(v) == v.t = "bool"

\* the truth value of v (138)
Truthy(v) == IF v.t = "str" THEN v.s # <<>> ELSE v.n # 0

\* lines 123-125
CoerceInts(c) ==
    [o \in Options |-> IF o \in Range(IntOptions) /\ ~IsInstanceInt(c[o])
                       THEN PyInt(0) ELSE c[o]]

\* lines 133-135
CoerceBools(c) ==
    [o \in Options |-> IF o \in Range(BoolOptions) /\ ~IsInstanceBool(c[o])
                       THEN PyBool(FALSE) ELSE c[o]]

\* lines 138-139
Migrate(c) ==
    IF Truthy(c[<<"scrub", "percentage">>])
    THEN [c EXCEPT ![<<"scrub", "plan">>] = c[<<"scrub", "percentage">>]]
    ELSE c

\* lines 141-145
Override(c, args) ==
    LET c1 == IF args.scrub # <<>>
              THEN [c EXCEPT ![<<"scrub", "enabled">>] = PyBool(args.scrub[1])]
              ELSE c
    IN  IF args.ignore_deletethreshold
        THEN [c1 EXCEPT ![<<"snapraid", "deletethreshold">>] = PyInt(0 - 1)]
        ELSE c1

ConfigInit ==
    /\ InitRun
    /\ fs = [exe |-> TRUE, conf |-> TRUE]
    /\ tee = TeeIdle
    /\ loader \in [mode : {"run"},
                    config_file : { <<>> } \cup { <<f>> : f \in ConfigFiles },
                    args : ArgsValues]

\* lines 201-206 and load_config: an empty file is None, and line 113
\* raises; otherwise the global config is built
LoadConfig ==
    /\ loader.mode = "run"
    /\ pc = "load_config"
    /\ IF loader.config_file = <<>>
       THEN /\ config' = config
            /\ pc' = "exited"
            /\ exitCode' = <<2>>
       ELSE /\ config' = << Override(Migrate(CoerceBools(CoerceInts(
                                Loaded(loader.config_file[1])))), loader.args) >>
            /\ pc' = "setup_logger"
            /\ exitCode' = exitCode
    /\ UNCHANGED <<fs, inTry, calls, proc_out, retval, diff_out, diff_results,
                   scrub_args, is_success, finishCalls, notifyLog, attachFile, log, exc,
                   tee, loader>>

ConfigNext ==
    \/ MainCheckConf
    \/ LoadConfig

ConfigSpec == ConfigInit /\ [][ConfigNext]_vars

----------------------------------------------------------------------------
\* Vocabulary of the properties.

Exited == pc = "exited"

\* run() has been entered (line 216)
RunBegan == pc \notin {"main", "load_config", "setup_logger"} /\ (pc = "run" \/ log # <<>>)

Occurrences(seq, x) == Cardinality({ i \in DOMAIN seq : seq[i] = x })

Invocations(command) == Cardinality({ i \in DOMAIN calls : calls[i].command = command })

Completed(call) == call.status \in {"returned", "raised"}

\* the exit code is non-zero and not in the allowlist of the call
Disallowed(call) == Completed(call) /\ call.ret # 0 /\ call.ret \notin call.allow

Removed == diff_results[1]["remove"]

Changes ==
    diff_results[1]["add"] + diff_results[1]["remove"]
        + diff_results[1]["move"] + diff_results[1]["update"]

GateAborts == Cfg.deletethreshold >= 0 /\ Removed > Cfg.deletethreshold

FinalizedAsFailure ==
    /\ finishCalls # <<>>
    /\ \A i \in DOMAIN finishCalls : finishCalls[i] = FALSE
    /\ Exited => exitCode = <<1>>

\* preconditions held, every invoked command ended with 0 or an allowed
\* code, and the delete threshold was not exceeded
RunSucceeded ==
    /\ fs.exe /\ fs.conf
    /\ \A i \in DOMAIN calls : calls[i].status = "returned"
    /\ diff_results # <<>>
    /\ ~GateAborts

----------------------------------------------------------------------------
\* C1: in every run that reaches run(), finish() is called exactly once:
\* never twice at any moment, and once by the time the process has exited.
FinishCalledExactlyOnce ==
    /\ Len(finishCalls) <= 1
    /\ (Exited /\ RunBegan) => Len(finishCalls) = 1

\* C2: the process exits with 2 when it stops before run(), with 0 when the
\* run succeeded overall, and with 1 on any failure or abort of the run.
ExitCodeContract ==
    Exited =>
        /\ ~RunBegan => exitCode = <<2>>
        /\ RunBegan => exitCode = <<IF RunSucceeded THEN 0 ELSE 1>>

\* C3 as stated: a remove count above a non-negative threshold finalizes as
\* failure without sync; a remove count equal to the threshold does not
\* abort and the run proceeds to sync; a negative threshold never aborts.
ThresholdGateAsStated ==
    diff_results # <<>> =>
        /\ GateAborts =>
              /\ Invocations("sync") = 0
              /\ pc \notin {"threshold"} => FinalizedAsFailure \/ pc = "finish"
        /\ (Cfg.deletethreshold >= 0 /\ Removed = Cfg.deletethreshold) =>
              /\ Occurrences(log, "threshold_exceeded") = 0
              /\ Exited => Invocations("sync") = 1
        /\ Cfg.deletethreshold < 0 => Occurrences(log, "threshold_exceeded") = 0

\* C3 amended: as stated, except that with the remove count equal to the
\* threshold the run proceeds to sync exactly when the four counts are not
\* all zero (threshold 0 and no change at all is a no-op run).
ThresholdGate ==
    diff_results # <<>> =>
        /\ GateAborts =>
              /\ Invocations("sync") = 0
              /\ pc \notin {"threshold"} => FinalizedAsFailure \/ pc = "finish"
        /\ (Cfg.deletethreshold >= 0 /\ Removed = Cfg.deletethreshold) =>
              /\ Occurrences(log, "threshold_exceeded") = 0
              /\ Exited => Invocations("sync") = (IF Changes = 0 THEN 0 ELSE 1)
        /\ Cfg.deletethreshold < 0 => Occurrences(log, "threshold_exceeded") = 0

\* the remove count equals a positive threshold and sync has been invoked
ThresholdGateWitness ==
    /\ Exited
    /\ diff_results # <<>>
    /\ Cfg.deletethreshold = 1
    /\ Removed = 1
    /\ Invocations("sync") = 1

\* the log, from the entry after the first "no_sync_required" on
AfterNoSync ==
    LET at == CHOOSE i \in DOMAIN log : log[i] = "no_sync_required"
    IN  SubSeq(log, at + 1, Len(log))

\* C4: with all four counts zero sync is never invoked, "no sync required"
\* is logged exactly once and the scrub decision is next (scrub invoked if
\* enabled); with a non-zero sum and no abort sync is invoked exactly once.
NoOpDetection ==
    diff_results # <<>> =>
        /\ Occurrences(log, "no_sync_required") <= 1
        /\ Invocations("sync") <= 1
        /\ Changes = 0 =>
              /\ Invocations("sync") = 0
              /\ pc \notin {"threshold", "sync_decision"} =>
                    /\ Occurrences(log, "no_sync_required") = 1
                    /\ AfterNoSync # <<>> =>
                          AfterNoSync[1] = (IF Cfg.scrubEnabled THEN "running_scrub"
                                            ELSE "all_done")
                    /\ (Cfg.scrubEnabled /\ pc \notin {"scrub_decision", "call_scrub"}) =>
                          /\ Invocations("scrub") = 1
                          /\ calls[Len(calls)].command = "scrub"
                          /\ calls[Len(calls) - 1].command = "diff"
        /\ (Changes # 0 /\ ~GateAborts) =>
              /\ Occurrences(log, "no_sync_required") = 0
              /\ pc \notin {"threshold", "sync_decision", "call_sync"} =>
                    Invocations("sync") = 1

\* a no-op run with scrub enabled has run scrub and exited
NoOpDetectionWitness ==
    /\ Exited
    /\ diff_results # <<>>
    /\ Changes = 0
    /\ Cfg.scrubEnabled
    /\ Invocations("scrub") = 1
    /\ Occurrences(log, "no_sync_required") = 1

\* C5: a command that ends with a disallowed exit code is the last command
\* of the run, and the run finalizes with failure.
CommandFailureStopsRun ==
    \A i \in DOMAIN calls :
        Disallowed(calls[i]) =>
            /\ i = Len(calls)
            /\ pc \in {"main_except", "finish", "notify", "remove_attachment",
                       "finish_exit", "exited"}
            /\ pc \in {"notify", "remove_attachment", "finish_exit", "exited"} =>
                  FinalizedAsFailure

\* sync failed with scrub enabled, and the process has exited without scrub
CommandFailureWitness ==
    /\ Exited
    /\ config # <<>>
    /\ Cfg.scrubEnabled
    /\ calls # <<>>
    /\ calls[Len(calls)].command = "sync"
    /\ calls[Len(calls)].ret = 1
    /\ Invocations("scrub") = 0

\* the position of run() right after a command returned
JustReturned ==
    /\ calls # <<>>
    /\ calls[Len(calls)].status = "returned"
    /\ <<calls[Len(calls)].command, pc>> \in
          { <<"touch", "call_diff">>, <<"diff", "analyze">>,
            <<"sync", "scrub_decision">>, <<"scrub", "all_done">> }

PreconditionCheck ==
    (~fs.exe \/ ~fs.conf) =>
        /\ calls = <<>>
        /\ pc \notin CallSites \cup WaitSites
        /\ (Exited /\ RunBegan) => FinalizedAsFailure

\* the executable exists, the snapraid config does not, the run has failed
PreconditionCheckWitness ==
    /\ Exited
    /\ fs.exe
    /\ ~fs.conf
    /\ finishCalls # <<>>
    /\ exitCode = <<1>>

NotificationFailed ==
    \E i \in DOMAIN notifyLog : notifyLog[i].result # "sent"

\* C8: a failed notification attempt (library missing, notify raising, the
\* removal raising) is caught and logged inside finish: finish is not
\* called again and the exit code is the one of the run outcome.
NotificationFailureContained ==
    NotificationFailed =>
        /\ Len(finishCalls) = 1
        /\ Len(notifyLog) = 1
        /\ pc \in {"finish_exit", "exited"}
        /\ Occurrences(log, "notify_failed") + Occurrences(log, "apprise_missing") = 1
        /\ finishCalls[1] = (Occurrences(log, "all_done") = 1)
        /\ Exited => exitCode = <<IF finishCalls[1] THEN 0 ELSE 1>>

\* notify raised on a successful run, and the process exited with 0
NotificationFailureWitness ==
    /\ Exited
    /\ notifyLog # <<>>
    /\ notifyLog[1].result = "raised"
    /\ finishCalls = <<TRUE>>
    /\ exitCode = <<0>>

\* C9: with attach-log enabled, the attachment file is gone once the
\* notification attempt is over, whether the attempt succeeded or failed
\* (unless the removal itself failed, which is not fatal).
AttachmentRemovedAfterAttempt ==
    (config # <<>> /\ notifyLog # <<>> /\ pc \in {"finish_exit", "exited"}) =>
        /\ (Cfg.attachLog /\ notifyLog[Len(notifyLog)].result # "remove_failed") =>
              ~attachFile
        /\ Exited => exitCode \in {<<0>>, <<1>>}

\* snapraid_command has returned or raised
TeeDone == tee.mode = "run" /\ tee.mi > Len(MainSteps)

\* the j-th record of the log sink, one record per LineLen characters
SinkRecord(j) == SubSeq(tee.sink, (j - 1) * LineLen + 1, j * LineLen)

\* the lines the child was started to write, as <<stream, number>>
ScriptLines ==
    { <<tee.script[j], LinesTo(tee.script, j, tee.script[j])>> : j \in DOMAIN tee.script }

\* the record of a line in the sink: its characters, then the terminator
Logged(s, i) ==
    [k \in 1 .. LineLen |-> IF k = LineLen THEN NL ELSE [s |-> s, i |-> i, k |-> k]]

\* C10: for every interleaving of the child and the two tee threads over
\* pipes of bounded capacity, some thread or the child can always take a
\* step until the command is over, every complete record of the sink is a
\* whole line of the child, no line is logged twice, and when the command
\* is over every line the child wrote is in the sink.
TeeNoDeadlockWholeLines ==
    tee.mode = "run" =>
        /\ ~TeeDone => ENABLED TeeNext
        /\ \A j \in 1 .. (Len(tee.sink) \div LineLen) :
              \E l \in ScriptLines : SinkRecord(j) = Logged(l[1], l[2])
        /\ \A j1, j2 \in 1 .. (Len(tee.sink) \div LineLen) :
              SinkRecord(j1) = SinkRecord(j2) => j1 = j2
        /\ TeeDone =>
              /\ Len(tee.sink) = LineLen * Len(tee.script)
              /\ \A l \in ScriptLines :
                    \E j \in 1 .. Len(tee.script) : SinkRecord(j) = Logged(l[1], l[2])

\* the command is over: the child wrote MaxTeeLines lines per stream,
\* stdout first, and the log has a stderr line first and a stdout line last
TeeWitness ==
    /\ TeeDone
    /\ Len(tee.script) = 2 * MaxTeeLines
    /\ tee.script[1] = "out"
    /\ SinkRecord(1) = Logged("err", 1)
    /\ SinkRecord(Len(tee.script)) = Logged("out", MaxTeeLines)

\* the channel named by a notification's success flag is in sendon
Subscribed(flag) ==
    /\ Cfg.sendon.container
    /\ (IF flag THEN "success" ELSE "error") \in Cfg.sendon.items

\* C11: the notifier is invoked at most once per run, with a success flag
\* equal to the run outcome, and only if the channel of that outcome is in
\* sendon; once finish is past its test with an unsubscribed channel the
\* notifier has not been invoked.
NotificationGating ==
    /\ Len(notifyLog) <= 1
    /\ \A i \in DOMAIN notifyLog :
          /\ notifyLog[i].success = RunSucceeded
          /\ Subscribed(notifyLog[i].success)
    /\ (finishCalls # <<>> /\ ~Subscribed(finishCalls[1])) => notifyLog = <<>>

\* a failed run with only the error channel subscribed has sent its
\* notification and exited
NotificationGatingWitness ==
    /\ Exited
    /\ Len(notifyLog) = 1
    /\ Cfg.sendon.items = {"error"}
    /\ notifyLog[1].success = FALSE
    /\ notifyLog[1].result = "sent"
    /\ exitCode = <<1>>

\* the plan is a percentage: an integer, or a string of decimal digits
NumericPlan(v) ==
    \/ v.t = "int"
    \/ v.t = "str" /\ Len(v.s) > 0 /\ { v.s[k] : k \in DOMAIN v.s } \subseteq Digits

\* the value of key k in an argument map, <<>> when the key is absent
ArgValue(args, k) ==
    IF \E j \in DOMAIN args : args[j][1] = k
    THEN << args[CHOOSE j \in DOMAIN args : args[j][1] = k][2] >>
    ELSE <<>>

RECURSIVE DecimalValue(_)
DecimalValue(d) ==
    IF d = <<>> THEN 0
    ELSE DecimalValue(SubSeq(d, 1, Len(d) - 1)) * Len(DigitChars)
            + (CHOOSE k \in 0 .. (Len(DigitChars) - 1) : DigitChars[k + 1] = d[Len(d)])

\* v stringified: a string as it is, a natural number as the digits that
\* denote it, without leading zeros
Stringified(v) ==
    IF v.t = "str" THEN v.s
    ELSE CHOOSE d \in SeqsUpTo(Digits, 2) \ {<<>>} :
            /\ DecimalValue(d) = v.n
            /\ Len(d) > 1 => d[1] # "0"

\* the tail of argv from position from on is, for each pair of the
\* argument map in turn, the flag named after the key and then its value
OptionFlags(argv, from, args) ==
    /\ Len(argv) = from - 1 + 2 * Len(args)
    /\ \A j \in DOMAIN args :
          /\ argv[from + 2 * j - 2] = <<"--", args[j][1]>>
          /\ argv[from + 2 * j - 1] = Stringified(args[j][2])

\* the two shapes of the global arguments: the quiet flag, and the config
\* flag with its path, in either order
GlobalFlagShapes ==
    { << <<"--conf">>, ConfigPath, <<"--quiet">> >>,
      << <<"--quiet">>, <<"--conf">>, ConfigPath >> }

\* C13 as stated: every launch passes the executable, then the quiet flag
\* and the config-file path, followed by exactly one command name, and
\* then the long-option flags of the argument map.
InvocationConventionAsStated ==
    \A i \in DOMAIN calls :
        LET argv == calls[i].argv IN
        /\ calls[i].command \in {"touch", "diff", "sync", "scrub"}
        /\ Len(argv) >= 5
        /\ argv[1] = Executable
        /\ SubSeq(argv, 2, 4) \in GlobalFlagShapes
        /\ argv[5] = <<calls[i].command>>
        /\ OptionFlags(argv, 6, calls[i].args)

\* C13 amended: every launch passes the executable, then exactly one
\* command name, then the config-file flag with its path and the quiet
\* flag, and then the long-option flags of the argument map.
InvocationConvention ==
    \A i \in DOMAIN calls :
        LET argv == calls[i].argv IN
        /\ calls[i].command \in {"touch", "diff", "sync", "scrub"}
        /\ Len(argv) >= 5
        /\ argv[1] = Executable
        /\ argv[2] = <<calls[i].command>>
        /\ SubSeq(argv, 3, 5) \in GlobalFlagShapes
        /\ OptionFlags(argv, 6, calls[i].args)

\* scrub has been launched with a numeric plan: nine words, the last four
\* the plan and older-than flags with their values
InvocationConventionWitness ==
    /\ calls # <<>>
    /\ calls[Len(calls)].command = "scrub"
    /\ calls[Len(calls)].status = "running"
    /\ calls[Len(calls)].argv =
          << <<"snapraid">>, <<"scrub">>, <<"--conf">>, <<"snapraid.conf">>, <<"--quiet">>,
             <<"--", "plan">>, <<"7", "5">>, <<"--", "older-than">>, <<"0">> >>

\* the main thread of snapraid_command is at the given step or past it
AtOrPast(step) ==
    \E j \in DOMAIN MainSteps : MainSteps[j] = step /\ j <= tee.mi

\* both tee threads have seen the end of their stream and have ended
ThreadsFinished ==
    \A t \in Streams : tee.th[t].pc = "done" /\ tee.closed[t] /\ tee.pipe[t] = <<>>

\* every line the child wrote, to either stream, is a record of the sink
AllLogged ==
    /\ tee.line > Len(tee.script)
    /\ Len(tee.sink) = LineLen * Len(tee.script)
    /\ \A l \in ScriptLines :
          \E j \in 1 .. Len(tee.script) : SinkRecord(j) = Logged(l[1], l[2])

\* C14: when snapraid_command begins to wait for the process, and from
\* then on until it has returned or raised, both tee threads have reached
\* end-of-stream and ended, and every line the process wrote to stdout and
\* stderr is in the log.
DrainBeforeResult ==
    (tee.mode = "run" /\ (AtOrPast("wait") \/ tee.result # "")) =>
        /\ ThreadsFinished
        /\ AllLogged

\* the main thread is about to wait for a process that wrote to both
\* streams and ended its last line without a newline; both threads have
\* ended and the log is complete
DrainBeforeResultWitness ==
    /\ tee.mode = "run"
    /\ MainStep = "wait"
    /\ tee.trunc
    /\ Len(tee.script) = 2 * MaxTeeLines
    /\ ThreadsFinished
    /\ AllLogged

\* the place of a command in the order touch, diff, sync, scrub
StepOrder(command) ==
    CASE command = "touch" -> 1
      [] command = "diff" -> 2
      [] command = "sync" -> 3
      [] command = "scrub" -> 4

\* the process of the call is in flight: launched, and snapraid_command
\* has not yet joined its threads, waited for it and returned or raised
InFlight(call) == call.status = "running"

\* C15: at most one command is in flight at any time, and only the last
\* one launched; the commands are launched in the order touch, diff, sync,
\* scrub, each at most once; while a command is in flight run() is inside
\* that snapraid_command call and launches nothing.
SequentialSteps ==
    /\ \A i \in DOMAIN calls : InFlight(calls[i]) => i = Len(calls)
    /\ \A i, j \in DOMAIN calls :
          i < j => StepOrder(calls[i].command) < StepOrder(calls[j].command)
    /\ \A i \in DOMAIN calls :
          i < Len(calls) => calls[i].status = "returned"
    /\ (calls # <<>> /\ InFlight(calls[Len(calls)])) <=> pc \in WaitSites
    /\ pc \in WaitSites =>
          pc = <<"wait_touch", "wait_diff", "wait_sync", "wait_scrub">>
                    [StepOrder(calls[Len(calls)].command)]

\* all four commands have run, one after the other, and the run is over
SequentialStepsWitness ==
    /\ Exited
    /\ Len(calls) = 4
    /\ \A i \in DOMAIN calls : calls[i].status = "returned"
    /\ exitCode = <<0>>

\* the lines the child writes to stdout, in the order it writes them: each
\* with its newline, except a last line of the output ended without one
StdoutWritten ==
    LET n == Cardinality({ j \in DOMAIN tee.script : tee.script[j] = "out" })
        cut(i) == tee.trunc /\ i = n /\ tee.script[Len(tee.script)] = "out"
    IN  [i \in 1 .. n |->
            [k \in 1 .. (IF cut(i) THEN LineLen - 1 ELSE LineLen) |->
                IF k = LineLen THEN NL ELSE [s |-> "out", i |-> i, k |-> k]]]

IsPrefix(a, b) == Len(a) <= Len(b) /\ a = SubSeq(b, 1, Len(a))

\* C16: the list out holds, at any moment, the first lines the child wrote
\* to stdout, in order and once each, and when snapraid_command returns
\* it, exactly all of them; no line of stderr is ever in it.
CapturedOutput ==
    tee.mode = "run" =>
        /\ IsPrefix(tee.out_lines["out"], StdoutWritten)
        /\ tee.result = "returned" => tee.out_lines["out"] = StdoutWritten
        /\ \A i \in DOMAIN tee.out_lines["out"] :
              \A k \in DOMAIN tee.out_lines["out"][i] :
                  tee.out_lines["out"][i][k].s # "err"

\* the command has returned out with MaxTeeLines lines although the child
\* wrote its stderr lines first and the first record of the log is a
\* stdout line
CapturedOutputWitness ==
    /\ tee.mode = "run"
    /\ tee.result = "returned"
    /\ Len(tee.out_lines["out"]) = MaxTeeLines
    /\ Len(tee.script) = 2 * MaxTeeLines
    /\ tee.script[1] = "err"
    /\ SinkRecord(1) = Logged("out", 1)

\* C17: a tee whose read failed has terminated, and snapraid_command does
\* not return a normal result after it: the error reaches the caller.
ReadErrorSurfaced ==
    \A t \in Streams :
        tee.th[t].failed =>
            /\ tee.th[t].pc = "done"
            /\ tee.result # "returned"

Whitespace == {" ", "\t", "\n"}

\* the first whitespace-delimited token of a line: the characters from the
\* first one that is not whitespace up to the next whitespace (<<>> for a
\* blank line)
RECURSIVE WhitespaceToken(_)
WhitespaceToken(line) ==
    IF line = <<>> THEN <<>>
    ELSE IF Head(line) \in Whitespace
         THEN (IF \A k \in DOMAIN line : line[k] \in Whitespace THEN <<>>
               ELSE WhitespaceToken(Tail(line)))
         ELSE IF Len(line) = 1 \/ line[2] \in Whitespace THEN <<Head(line)>>
         ELSE <<Head(line)>> \o WhitespaceToken(Tail(line))

\* for each of the four categories, the number of lines whose first
\* whitespace-delimited token is the category; the same for every order
\* of the lines
CategoryCounts(lines) ==
    [x \in {"add", "remove", "move", "update"} |->
        Cardinality({ i \in DOMAIN lines : WhitespaceToken(lines[i]) = <<x>> })]

\* C18: the diff analysis maps each of add, remove, move and update to the
\* number of captured lines whose first whitespace-delimited token is that
\* category, all four keys present, other lines ignored, whatever the
\* order of the lines.
DiffAnalysis ==
    [][pc = "analyze" => diff_results' = <<CategoryCounts(diff_out)>>]_vars

\* load_config has returned
ConfigLoaded == loader.mode = "run" /\ config # <<>>

\* the option is absent from the file, or its value is not of the type
AbsentOrNot(type, option) ==
    \/ loader.config_file[1][option] = <<>>
    \/ loader.config_file[1][option][1].t # type

\* C19: after load_config, every declared-int option that is absent or
\* holds a non-integer value is the integer 0 (for deletethreshold,
\* without --ignore-deletethreshold), and every declared-bool option that
\* is absent or holds a non-boolean value is False.
ConfigCoercion ==
    ConfigLoaded =>
        /\ \A o \in { <<"logging", "maxsize">>, <<"scrub", "older-than">> } :
              AbsentOrNot("int", o) => Cfg[o] = [t |-> "int", s |-> <<>>, n |-> 0]
        /\ (~loader.args.ignore_deletethreshold
                /\ AbsentOrNot("int", <<"snapraid", "deletethreshold">>)) =>
              Cfg[<<"snapraid", "deletethreshold">>] = [t |-> "int", s |-> <<>>, n |-> 0]
        /\ \A o \in { <<"snapraid", "touch">>, <<"apprise", "short">>,
                       <<"scrub", "enabled">> } :
              AbsentOrNot("bool", o) => Cfg[o] = [t |-> "bool", s |-> <<>>, n |-> 0]

\* an external process has been launched and has not finished
ProcessInFlight == calls # <<>> /\ calls[Len(calls)].status = "running"

\* the process has exited, through finish if run() was entered
Finalized == Exited /\ (RunBegan => finishCalls # <<>>)

\* C20: under fair scheduling, every run eventually reaches finish and the
\* process exits, unless from some moment on an external process is in
\* flight that never finishes: if every launched process finishes, the run
\* finalizes, and a process that never finishes is the only way not to.
Termination ==
    <>Finalized \/ <>[]ProcessInFlight

\* within one command (TeeFairSpec): a child that goes on writing and then
\* exits is drained, joined and waited for, and the command ends
CommandEnds == <>(tee.mode = "run" /\ tee.mi > Len(MainSteps))

\* a run of four commands, each of which finished, has exited with 0
\* after sending its notification
TerminationWitness ==
    /\ Exited
    /\ Len(calls) = 4
    /\ ~ProcessInFlight
    /\ finishCalls = <<TRUE>>
    /\ Len(notifyLog) = 1
    /\ exitCode = <<0>>

====
